---- MODULE Spec2Model ----
(***************************************************************************)
(* Fund holdings tracker (src/app.py): two quote providers, the resolver   *)
(* that picks one quote per fund code, the per-holding view, the portfolio *)
(* summary, and the JSON holdings store with its add / delete handlers.    *)
(*                                                                         *)
(* Numbers.  Python floats are modelled as tagged values: a finite number  *)
(* (an integer in fixed point: prices in 1/100, shares in whole units, so  *)
(* products are in 1/100 too), NaN, or +/- infinity.  The arithmetic below *)
(* follows IEEE 754 on those three kinds.                                  *)
(*                                                                         *)
(* Provider answers are modelled by the classes the adapters tell apart:   *)
(* failed request, missing wrapper, bad JSON, JSON that is no object, and  *)
(* per numeric member: absent, null, text float() rejects, or a value      *)
(* float() accepts.                                                        *)
(*                                                                         *)
(* Handlers.  A request occupies a slot from its arrival to the delivery   *)
(* of its response.  add_fund and delete_fund take two steps, one up to    *)
(* load_holdings() and one from there through save_holdings() to the       *)
(* response, because another request's handler can run between them;       *)
(* save_holdings itself is one step.  get_valuations reads the store once  *)
(* and is one step.  Request strings are taken after .strip(); the         *)
(* wall-clock updated_at of the summary is left out.                       *)
(*                                                                         *)
(* Specifications:                                                         *)
(*   SpecAdapters  each adapter on every class of provider answer          *)
(*   SpecResolve   get_best_data and compute_fund_view, every weekday and  *)
(*                 hour, sample answers and holdings                       *)
(*   SpecSerial    the routes, one request at a time                       *)
(*   Spec          the routes, two requests at a time                      *)
(***************************************************************************)
EXTENDS Integers, Sequences, FiniteSets, TLC

VARIABLES
    store,      \* the list kept in funds.json (CONFIG_FILE)
    ver,        \* history: number of save_holdings calls so far
    pc,         \* per request slot: where its handler stands
    req,        \* per request slot: the request being served
    local,      \* per request slot: the list load_holdings returned
    hist,       \* history, per slot: store version at arrival, load and save
    resp,       \* per request slot: the response of the handler
    now,        \* time.localtime(): [wday, hour]
    emResp,     \* what the Eastmoney endpoint answers
    sinaResp,   \* what the Sina endpoint answers
    holding,    \* the holding record being valued
    emOut,      \* outcome of fetch_from_eastmoney
    sinaOut,    \* outcome of fetch_from_sina
    best,       \* outcome of get_best_data, with the fetches it made
    view        \* outcome of compute_fund_view

vars == <<store, ver, pc, req, local, hist, resp,
          now, emResp, sinaResp, holding, emOut, sinaOut, best, view>>

webVars == <<store, ver, pc, req, local, hist, resp>>
envVars == <<now, emResp, sinaResp, holding>>
pipeVars == <<emOut, sinaOut, best, view>>

-----------------------------------------------------------------------------
(* Bounds *)

\* Largest number of comma-separated fields in a Sina record.
MaxFields == 6
\* Largest number of save_holdings calls in one run.
MaxSaves == 3

-----------------------------------------------------------------------------
(* Python float *)

F(n) == [k |-> "num", v |-> n]
NaN == [k |-> "nan", v |-> 0]
Inf(s) == [k |-> "inf", v |-> s]

Sgn(n) == IF n > 0 THEN 1 ELSE IF n < 0 THEN -1 ELSE 0
Abs(n) == IF n < 0 THEN -n ELSE n

IsFinite(x) == x.k = "num"

FNeg(x) == IF x.k = "nan" THEN NaN ELSE [k |-> x.k, v |-> -x.v]

FAdd(a, b) ==
    IF a.k = "nan" \/ b.k = "nan" THEN NaN
    ELSE IF a.k = "inf" /\ b.k = "inf"
         THEN IF a.v = b.v THEN a ELSE NaN
    ELSE IF a.k = "inf" THEN a
    ELSE IF b.k = "inf" THEN b
    ELSE F(a.v + b.v)

FSub(a, b) == FAdd(a, FNeg(b))

FMul(a, b) ==
    IF a.k = "nan" \/ b.k = "nan" THEN NaN
    ELSE IF a.k = "inf" \/ b.k = "inf"
         THEN IF Sgn(a.v) * Sgn(b.v) = 0 THEN NaN
              ELSE Inf(Sgn(a.v) * Sgn(b.v))
    ELSE F(a.v * b.v)

\* (a / b) * 100 for b # 0, the quotient kept in 1/100 (rounded down).
FPercent(a, b) ==
    IF a.k = "nan" \/ b.k = "nan" THEN NaN
    ELSE IF a.k = "inf"
         THEN IF b.k = "inf" THEN NaN ELSE Inf(Sgn(a.v) * Sgn(b.v))
    ELSE IF b.k = "inf" THEN F(0)
    ELSE F((a.v * 10000 * Sgn(b.v)) \div Abs(b.v))

\* x <= 0 and x > 0: both are False for NaN.
FLe0(x) == (x.k = "num" /\ x.v <= 0) \/ (x.k = "inf" /\ x.v < 0)
FGt0(x) == (x.k = "num" /\ x.v > 0) \/ (x.k = "inf" /\ x.v > 0)

\* bool(x): only 0.0 is falsy.
FTruthy(x) == ~(x.k = "num" /\ x.v = 0)

-----------------------------------------------------------------------------
(* Quotes and adapter outcomes *)

Quote(source, name, gsz, dwjz, gszzl, update_time) ==
    [source |-> source, name |-> name, gsz |-> gsz, dwjz |-> dwjz,
     gszzl |-> gszzl, update_time |-> update_time]

NoQuote == Quote("", "", F(0), F(0), F(0), "")

\* An adapter call ends by returning a dict, returning None, or raising.
Returned(q) == [t |-> "quote", q |-> q, exc |-> ""]
None == [t |-> "none", q |-> NoQuote, exc |-> ""]
Raised(e) == [t |-> "raise", q |-> NoQuote, exc |-> e]
NotCalled == [t |-> "pending", q |-> NoQuote, exc |-> ""]

\* f"基金{code}"
DefaultName(code) == "Fund" \o code

-----------------------------------------------------------------------------
(* Eastmoney: a JSONP body  jsonpgz({...});                                 *)

\* One member of the JSON object: absent, null, non-numeric text, or a value
\* float() accepts (a JSON number or numeric text, NaN and Infinity included).
JAbsent == [j |-> "absent", val |-> F(0)]
JNull == [j |-> "null", val |-> F(0)]
JText == [j |-> "text", val |-> F(0)]
JNum(x) == [j |-> "num", val |-> x]

JFields(n) == {JAbsent, JNull, JText, JNum(F(n)), JNum(NaN), JNum(Inf(1))}

NameAbsent == [present |-> FALSE, s |-> ""]
NameIs(s) == [present |-> TRUE, s |-> s]

EMBody(net, wrapper, json, name, gsz, dwjz, gszzl, gztime) ==
    [net |-> net, wrapper |-> wrapper, json |-> json, name |-> name,
     gsz |-> gsz, dwjz |-> dwjz, gszzl |-> gszzl, gztime |-> gztime]

EMObject(name, gsz, dwjz, gszzl, gztime) ==
    EMBody("ok", TRUE, "object", name, gsz, dwjz, gszzl, gztime)

EMBroken(net, wrapper, json) ==
    EMBody(net, wrapper, json, NameAbsent, JAbsent, JAbsent, JAbsent, "")

EMResponses ==
    {EMBroken("network_failure", FALSE, "invalid"),
     EMBroken("timeout", FALSE, "invalid"),
     EMBroken("ok", FALSE, "invalid"),
     EMBroken("ok", TRUE, "invalid"),
     EMBroken("ok", TRUE, "non_object")}
    \cup {EMObject(n, g, d, z, t) :
            n \in {NameAbsent, NameIs("X")}, g \in JFields(160),
            d \in JFields(155), z \in {JAbsent, JNull, JNum(F(320))},
            t \in {"", "14:00"}}

\* float(data.get(key, 0)) for one member: the value, or the exception.
FloatOf(f) ==
    CASE f.j = "absent" -> [ok |-> TRUE, val |-> F(0), exc |-> ""]
      [] f.j = "null" -> [ok |-> FALSE, val |-> F(0), exc |-> "TypeError"]
      [] f.j = "text" -> [ok |-> FALSE, val |-> F(0), exc |-> "ValueError"]
      [] f.j = "num" -> [ok |-> TRUE, val |-> f.val, exc |-> ""]

\* except (requests.RequestException, ValueError, json.JSONDecodeError)
EMCaught(e) == e \in {"RequestException", "ValueError", "JSONDecodeError"}

EMExcept(e) == IF EMCaught(e) THEN None ELSE Raised(e)

fetch_from_eastmoney(code, r) ==
    IF r.net # "ok" THEN EMExcept("RequestException")
    ELSE IF ~r.wrapper THEN None
    ELSE IF r.json = "invalid" THEN EMExcept("JSONDecodeError")
    ELSE IF r.json = "non_object" THEN EMExcept("AttributeError")
    ELSE LET gsz == FloatOf(r.gsz)
             dwjz == FloatOf(r.dwjz)
             gszzl == FloatOf(r.gszzl)
         IN  IF ~gsz.ok THEN EMExcept(gsz.exc)
             ELSE IF ~dwjz.ok THEN EMExcept(dwjz.exc)
             ELSE IF ~gszzl.ok THEN EMExcept(gszzl.exc)
             ELSE Returned(Quote("eastmoney",
                                 IF r.name.present THEN r.name.s
                                 ELSE DefaultName(code),
                                 gsz.val, dwjz.val, gszzl.val, r.gztime))

-----------------------------------------------------------------------------
(* Sina: a quoted, comma-separated record  var hq_str_f_x="a,b,c,d,e";      *)

\* One positional field as float() sees it: a value, or text it rejects.
TBad == [ok |-> FALSE, val |-> F(0)]
TNum(x) == [ok |-> TRUE, val |-> x]

Tokens(n) == {TBad, TNum(F(n)), TNum(NaN), TNum(Inf(1))}

SinaBody(net, match, n, name, f1, f3, f4) ==
    [net |-> net, match |-> match, n |-> n, name |-> name,
     f1 |-> f1, f3 |-> f3, f4 |-> f4]

SinaBroken(net) == SinaBody(net, FALSE, 1, "", TBad, TBad, "")

SinaResponses ==
    {SinaBroken("network_failure"), SinaBroken("timeout"), SinaBroken("ok")}
    \cup {SinaBody("ok", TRUE, n, "Y", f1, f3, t) :
            n \in 1..MaxFields, f1 \in Tokens(158),
            f3 \in Tokens(155) \cup {TNum(F(0))}, t \in {"", "2024-01-05"}}

\* except (requests.RequestException, ValueError, IndexError)
SinaCaught(e) == e \in {"RequestException", "ValueError", "IndexError"}

SinaExcept(e) == IF SinaCaught(e) THEN None ELSE Raised(e)

fetch_from_sina(code, r) ==
    IF r.net # "ok" THEN SinaExcept("RequestException")
    ELSE IF ~r.match THEN None
    ELSE IF r.n < 5 THEN None
    ELSE IF ~r.f1.ok THEN SinaExcept("ValueError")
    ELSE IF ~r.f3.ok THEN SinaExcept("ValueError")
    ELSE LET gsz == r.f1.val
             dwjz == r.f3.val
             gszzl == IF FTruthy(dwjz) THEN FPercent(FSub(gsz, dwjz), dwjz)
                      ELSE F(0)
         IN  Returned(Quote("sina", r.name, gsz, dwjz, gszzl, r.f4))

-----------------------------------------------------------------------------
(* Resolver *)

\* Python's  a or b  on two adapter results.
OrElse(a, b) == IF a.t = "quote" THEN a ELSE b

\* The result and the provider calls made, in order.  An exception raised by
\* an adapter call propagates out of get_best_data at that call.
Best(ret, fetched) == [called |-> TRUE, ret |-> ret, fetched |-> fetched]
BestPending == [called |-> FALSE, ret |-> NotCalled, fetched |-> <<>>]

get_best_data(code, t, emR, sinaR) ==
    LET is_weekend == t.wday >= 5
        is_trading_time == 9 <= t.hour /\ t.hour <= 15
        eastmoney == fetch_from_eastmoney(code, emR)
        sina == fetch_from_sina(code, sinaR)
    IN  IF eastmoney.t = "raise" THEN Best(eastmoney, <<"eastmoney">>)
        ELSE IF is_trading_time /\ eastmoney.t = "quote"
             THEN Best(eastmoney, <<"eastmoney">>)
        ELSE IF sina.t = "raise" THEN Best(sina, <<"eastmoney", "sina">>)
        ELSE IF is_weekend
             THEN Best(OrElse(sina, eastmoney), <<"eastmoney", "sina">>)
        ELSE Best(OrElse(eastmoney, sina), <<"eastmoney", "sina">>)

-----------------------------------------------------------------------------
(* Per-holding view *)

Holding(code, name, shares, cost) ==
    [code |-> code, name |-> name, shares |-> shares, cost |-> cost]

format_update_time(value) == IF value = "" THEN "--" ELSE value

NoView == [source |-> "pending"]

\* compute_fund_view with the offline branch taking 0, not the cost, as the
\* last net value.
compute_fund_view_offline_zero(h, remote) ==
    LET name0 == IF h.name # "" THEN h.name ELSE DefaultName(h.code)
        has == remote.t = "quote"
        gsz == IF has THEN remote.q.gsz ELSE h.cost
        dwjz == IF has THEN remote.q.dwjz ELSE F(0)
        gszzl == IF has THEN remote.q.gszzl ELSE F(0)
    IN  [code |-> h.code,
         name |-> IF has /\ remote.q.name # "" THEN remote.q.name ELSE name0,
         shares |-> h.shares, cost |-> h.cost,
         gsz |-> gsz, dwjz |-> dwjz, gszzl |-> gszzl,
         market_value |-> FMul(h.shares, gsz),
         day_profit |-> FMul(FSub(gsz, dwjz), h.shares),
         total_profit |-> FMul(FSub(gsz, h.cost), h.shares),
         update_time |-> IF has THEN format_update_time(remote.q.update_time)
                         ELSE "--",
         source |-> IF has THEN remote.q.source ELSE "offline"]

\* compute_fund_view with the day profit measured against the cost.
compute_fund_view_day_vs_cost(h, remote) ==
    LET name0 == IF h.name # "" THEN h.name ELSE DefaultName(h.code)
        has == remote.t = "quote"
        gsz == IF has THEN remote.q.gsz ELSE h.cost
        dwjz == IF has THEN remote.q.dwjz ELSE h.cost
        gszzl == IF has THEN remote.q.gszzl ELSE F(0)
    IN  [code |-> h.code,
         name |-> IF has /\ remote.q.name # "" THEN remote.q.name ELSE name0,
         shares |-> h.shares, cost |-> h.cost,
         gsz |-> gsz, dwjz |-> dwjz, gszzl |-> gszzl,
         market_value |-> FMul(h.shares, gsz),
         day_profit |-> FMul(FSub(gsz, h.cost), h.shares),
         total_profit |-> FMul(FSub(gsz, h.cost), h.shares),
         update_time |-> IF has THEN format_update_time(remote.q.update_time)
                         ELSE "--",
         source |-> IF has THEN remote.q.source ELSE "offline"]

compute_fund_view(h, remote) ==
    LET name0 == IF h.name # "" THEN h.name ELSE DefaultName(h.code)
        shares == h.shares
        cost == h.cost
        has == remote.t = "quote"
        gsz == IF has THEN remote.q.gsz ELSE cost
        dwjz == IF has THEN remote.q.dwjz ELSE cost
        gszzl == IF has THEN remote.q.gszzl ELSE F(0)
        name == IF has /\ remote.q.name # "" THEN remote.q.name ELSE name0
        update_time == IF has THEN format_update_time(remote.q.update_time)
                       ELSE "--"
        source == IF has THEN remote.q.source ELSE "offline"
    IN  [code |-> h.code, name |-> name, shares |-> shares, cost |-> cost,
         gsz |-> gsz, dwjz |-> dwjz, gszzl |-> gszzl,
         market_value |-> FMul(shares, gsz),
         day_profit |-> FMul(FSub(gsz, dwjz), shares),
         total_profit |-> FMul(FSub(gsz, cost), shares),
         update_time |-> update_time, source |-> source]

-----------------------------------------------------------------------------
(* Inputs of the valuation pipeline *)

Times == [wday : 0..6, hour : 0..23]

EMQuoteSample ==
    EMObject(NameIs("X"), JNum(F(160)), JNum(F(155)), JNum(F(320)), "14:00")

EMSamples ==
    {EMQuoteSample,
     EMObject(NameAbsent, JNum(NaN), JAbsent, JAbsent, ""),
     EMBroken("timeout", FALSE, "invalid"),
     EMObject(NameIs("X"), JNull, JNum(F(155)), JNum(F(320)), "14:00")}

SinaQuoteSample ==
    SinaBody("ok", TRUE, 5, "Y", TNum(F(158)), TNum(F(155)), "2024-01-05")

SinaSamples == {SinaQuoteSample, SinaBroken("timeout")}

HoldingSamples ==
    {Holding("A", n, s, c) :
        n \in {"", "Mine"}, s \in {F(100), NaN, Inf(1)},
        c \in {F(150), NaN, Inf(1)}}

-----------------------------------------------------------------------------
(* Initial states *)

Procs == {1, 2}

NoReq == [op |-> "none"]
NoResp == [status |-> 0]
NoHist == [arrived |-> 0, loaded |-> 0, saved |-> 0]

InitWeb ==
    /\ store = <<>>
    /\ ver = 0
    /\ pc = [p \in Procs |-> "idle"]
    /\ req = [p \in Procs |-> NoReq]
    /\ local = [p \in Procs |-> <<>>]
    /\ hist = [p \in Procs |-> NoHist]
    /\ resp = [p \in Procs |-> NoResp]

InitPipe ==
    /\ emOut = NotCalled
    /\ sinaOut = NotCalled
    /\ best = BestPending
    /\ view = NoView

\* One provider response at a time, every response class of either provider.
InitAdapters ==
    /\ InitWeb
    /\ InitPipe
    /\ now = [wday |-> 0, hour |-> 10]
    /\ holding = Holding("A", "", F(100), F(150))
    /\ \/ emResp \in EMResponses /\ sinaResp = SinaBroken("timeout")
       \/ emResp = EMBroken("timeout", FALSE, "invalid")
          /\ sinaResp \in SinaResponses

\* Every weekday and hour, with sample answers of the two providers.
InitResolve ==
    /\ InitWeb
    /\ InitPipe
    /\ now \in Times
    /\ holding \in HoldingSamples
    /\ emResp \in EMSamples
    /\ sinaResp \in SinaSamples

-----------------------------------------------------------------------------
(* Pipeline steps *)

FetchEastmoney ==
    /\ emOut.t = "pending"
    /\ emOut' = fetch_from_eastmoney(holding.code, emResp)
    /\ UNCHANGED <<webVars, envVars, sinaOut, best, view>>

FetchSina ==
    /\ sinaOut.t = "pending"
    /\ sinaOut' = fetch_from_sina(holding.code, sinaResp)
    /\ UNCHANGED <<webVars, envVars, emOut, best, view>>

GetBestData ==
    /\ ~best.called
    /\ best' = get_best_data(holding.code, now, emResp, sinaResp)
    /\ UNCHANGED <<webVars, envVars, emOut, sinaOut, view>>

ComputeFundView ==
    /\ best.called
    /\ best.ret.t # "raise"
    /\ view = NoView
    /\ view' = compute_fund_view(holding, best.ret)
    /\ UNCHANGED <<webVars, envVars, emOut, sinaOut, best>>

NextAdapters == FetchEastmoney \/ FetchSina
SpecAdapters == InitAdapters /\ [][NextAdapters]_vars

NextResolve == GetBestData \/ ComputeFundView
SpecResolve == InitResolve /\ [][NextResolve]_vars

-----------------------------------------------------------------------------
(* Holdings store and request handlers *)

\* load_holdings(): the list in the file ([] while the file does not exist).
load_holdings == store

AddReq(code, name, shares, cost) ==
    [op |-> "add", code |-> code, name |-> name, shares |-> shares,
     cost |-> cost]
DelReq(code) == [op |-> "delete", code |-> code]
ValReq == [op |-> "valuations"]
HoldReq == [op |-> "holdings"]

Ok200 == [status |-> 200, success |-> TRUE]
Err400(msg) == [status |-> 400, error |-> msg]
\* An exception that leaves a handler: Flask answers 500.
Err500(exc) == [status |-> 500, error |-> exc]

Codes(holdings) == [i \in 1..Len(holdings) |-> holdings[i].code]
HasCode(holdings, code) ==
    \E i \in 1..Len(holdings) : holdings[i].code = code

\* Number of handlers that have loaded the store and not yet saved it.
Loaded == Cardinality({q \in Procs : pc[q] \in {"add_loaded", "del_loaded"}})

\* add_fund, lines 201-217, with every new code appended (no search).
AddFundUpdateAppend(holdings, code, name, shares, cost) ==
    Append(holdings,
           Holding(code, IF name # "" THEN name ELSE DefaultName(code),
                   shares, cost))

\* add_fund, lines 201-217: update the first record with the code, else append.
AddFundUpdate(holdings, code, name, shares, cost) ==
    LET hits == {i \in 1..Len(holdings) : holdings[i].code = code}
    IN  IF hits # {}
        THEN LET i == CHOOSE k \in hits : \A m \in hits : k <= m
             IN  [holdings EXCEPT
                    ![i] = [@ EXCEPT !.shares = shares, !.cost = cost,
                                     !.name = IF name # "" THEN name ELSE @]]
        ELSE Append(holdings,
                    Holding(code,
                            IF name # "" THEN name ELSE DefaultName(code),
                            shares, cost))

\* add_fund, lines 186-198: the answer that ends the request before the
\* store is read, or NoResp when the request passes.
AddFundReject(r) ==
    LET shares == FloatOf(r.shares)
        cost == FloatOf(r.cost)
    IN  IF r.code = "" THEN Err400("code")
        ELSE IF ~shares.ok THEN Err500(shares.exc)
        ELSE IF ~cost.ok THEN Err500(cost.exc)
        ELSE IF FLe0(shares.val) THEN Err400("shares")
        ELSE IF FLe0(cost.val) THEN Err400("cost")
        ELSE NoResp

\* add_fund up to holdings = load_holdings().
AddFundLoad(p, r) ==
    /\ pc[p] = "idle"
    /\ req' = [req EXCEPT ![p] = r]
    /\ IF AddFundReject(r) # NoResp
       THEN /\ resp' = [resp EXCEPT ![p] = AddFundReject(r)]
            /\ pc' = [pc EXCEPT ![p] = "done"]
            /\ hist' = [hist EXCEPT ![p].arrived = ver]
            /\ UNCHANGED local
       ELSE /\ ver + Loaded < MaxSaves
            /\ local' = [local EXCEPT ![p] = load_holdings]
            /\ hist' = [hist EXCEPT ![p].arrived = ver, ![p].loaded = ver]
            /\ pc' = [pc EXCEPT ![p] = "add_loaded"]
            /\ UNCHANGED resp
    /\ UNCHANGED <<store, ver, envVars, pipeVars>>

\* add_fund saving onto the list as it is in the file at that moment.
AddFundSaveFresh(p) ==
    /\ pc[p] = "add_loaded"
    /\ store' = AddFundUpdate(store, req[p].code, req[p].name,
                              FloatOf(req[p].shares).val,
                              FloatOf(req[p].cost).val)
    /\ ver' = ver + 1
    /\ hist' = [hist EXCEPT ![p].saved = ver + 1]
    /\ resp' = [resp EXCEPT ![p] = Ok200]
    /\ pc' = [pc EXCEPT ![p] = "done"]
    /\ UNCHANGED <<req, local, envVars, pipeVars>>

\* add_fund from the search loop to the response: save_holdings(holdings).
AddFundSave(p) ==
    /\ pc[p] = "add_loaded"
    /\ store' = AddFundUpdate(local[p], req[p].code, req[p].name,
                              FloatOf(req[p].shares).val,
                              FloatOf(req[p].cost).val)
    /\ ver' = ver + 1
    /\ hist' = [hist EXCEPT ![p].saved = ver + 1]
    /\ resp' = [resp EXCEPT ![p] = Ok200]
    /\ pc' = [pc EXCEPT ![p] = "done"]
    /\ UNCHANGED <<req, local, envVars, pipeVars>>

\* delete_fund up to holdings = load_holdings().
DeleteFundLoad(p, r) ==
    /\ pc[p] = "idle"
    /\ ver + Loaded < MaxSaves
    /\ req' = [req EXCEPT ![p] = r]
    /\ local' = [local EXCEPT ![p] = load_holdings]
    /\ hist' = [hist EXCEPT ![p].arrived = ver, ![p].loaded = ver]
    /\ pc' = [pc EXCEPT ![p] = "del_loaded"]
    /\ UNCHANGED <<store, ver, resp, envVars, pipeVars>>

\* delete_fund: filter, save_holdings(new_holdings), respond.
DeleteFundSave(p) ==
    /\ pc[p] = "del_loaded"
    /\ store' = SelectSeq(local[p], LAMBDA item : item.code # req[p].code)
    /\ ver' = ver + 1
    /\ hist' = [hist EXCEPT ![p].saved = ver + 1]
    /\ resp' = [resp EXCEPT ![p] = Ok200]
    /\ pc' = [pc EXCEPT ![p] = "done"]
    /\ UNCHANGED <<req, local, envVars, pipeVars>>

GetHoldings(p) ==
    /\ pc[p] = "idle"
    /\ req' = [req EXCEPT ![p] = HoldReq]
    /\ resp' = [resp EXCEPT ![p] = [status |-> 200, data |-> load_holdings]]
    /\ pc' = [pc EXCEPT ![p] = "done"]
    /\ UNCHANGED <<store, ver, local, hist, envVars, pipeVars>>

\* The loop of get_valuations from holding i on; inputs[i] is the time and
\* the providers' answers met while holding i is resolved.
RECURSIVE ValuationLoop(_, _, _, _)
ValuationLoop(holdings, inputs, i, acc) ==
    IF i > Len(holdings)
    THEN [status |-> 200, data |-> acc.data,
          summary |-> [total_market_value |-> acc.total_market,
                       total_day_profit |-> acc.total_day,
                       total_hold_profit |-> acc.total_profit]]
    ELSE LET remote == get_best_data(holdings[i].code, inputs[i].now,
                                     inputs[i].em, inputs[i].sina)
         IN  IF remote.ret.t = "raise" THEN Err500(remote.ret.exc)
             ELSE LET v == compute_fund_view(holdings[i], remote.ret)
                  IN  ValuationLoop(holdings, inputs, i + 1,
                        [data |-> Append(acc.data, v),
                         total_market |-> FAdd(acc.total_market,
                                               v.market_value),
                         total_day |-> FAdd(acc.total_day, v.day_profit),
                         total_profit |-> FAdd(acc.total_profit,
                                               v.total_profit)])

get_valuations(holdings, inputs) ==
    ValuationLoop(holdings, inputs, 1,
                  [data |-> <<>>, total_market |-> F(0), total_day |-> F(0),
                   total_profit |-> F(0)])

GetValuations(p, inputs) ==
    /\ pc[p] = "idle"
    /\ Len(inputs) = Len(store)
    /\ req' = [req EXCEPT ![p] = ValReq]
    /\ local' = [local EXCEPT ![p] = load_holdings]
    /\ resp' = [resp EXCEPT ![p] = get_valuations(load_holdings, inputs)]
    /\ pc' = [pc EXCEPT ![p] = "done"]
    /\ UNCHANGED <<store, ver, hist, envVars, pipeVars>>

\* The response is delivered; the slot is free for the next request.
Return(p) ==
    /\ pc[p] = "done"
    /\ pc' = [pc EXCEPT ![p] = "idle"]
    /\ req' = [req EXCEPT ![p] = NoReq]
    /\ local' = [local EXCEPT ![p] = <<>>]
    /\ hist' = [hist EXCEPT ![p] = NoHist]
    /\ resp' = [resp EXCEPT ![p] = NoResp]
    /\ UNCHANGED <<store, ver, envVars, pipeVars>>

-----------------------------------------------------------------------------
(* Requests and provider answers the handlers are run on *)

AddRequests ==
    {AddReq(c, n, s, k) :
        c \in {"", "A", "B"}, n \in {"", "Mine"},
        s \in {JNull, JNum(F(0)), JNum(F(100)), JNum(F(200)), JNum(NaN)},
        k \in {JNum(F(-1)), JNum(F(150)), JNum(Inf(1))}}

DelRequests == {DelReq(c) : c \in {"A", "B"}}

\* Two new funds bought at the same terms.
PlainAddRequests ==
    {AddReq(c, "", JNum(F(100)), JNum(F(150))) : c \in {"A", "B"}}

ValuationInputs ==
    [now : {[wday |-> 0, hour |-> 10], [wday |-> 5, hour |-> 20]},
     em : {EMQuoteSample, EMBroken("timeout", FALSE, "invalid"),
           EMObject(NameIs("X"), JNull, JNum(F(155)), JNum(F(320)), "14:00")},
     sina : SinaSamples]

InputsFor(n) == [1..n -> ValuationInputs]

InitServer ==
    /\ InitWeb
    /\ InitPipe
    /\ now = [wday |-> 0, hour |-> 10]
    /\ holding = Holding("A", "", F(100), F(150))
    /\ emResp = EMBroken("timeout", FALSE, "invalid")
    /\ sinaResp = SinaBroken("timeout")

\* Requests served one at a time.
Alone(p) == \A q \in Procs \ {p} : pc[q] = "idle"

NextSerial ==
    \E p \in Procs :
        \/ \E r \in AddRequests : Alone(p) /\ AddFundLoad(p, r)
        \/ Alone(p) /\ AddFundSave(p)
        \/ \E r \in DelRequests : Alone(p) /\ DeleteFundLoad(p, r)
        \/ Alone(p) /\ DeleteFundSave(p)
        \/ Alone(p) /\ GetHoldings(p)
        \/ \E inputs \in InputsFor(Len(store)) :
                Alone(p) /\ GetValuations(p, inputs)
        \/ Alone(p) /\ Return(p)

SpecSerial == InitServer /\ [][NextSerial]_vars

\* Requests served concurrently (a threaded server): the handlers of two
\* requests interleave at their load_holdings and save_holdings calls.
Next ==
    \E p \in Procs :
        \/ \E r \in PlainAddRequests : AddFundLoad(p, r)
        \/ AddFundSave(p)
        \/ \E r \in DelRequests : DeleteFundLoad(p, r)
        \/ DeleteFundSave(p)
        \/ GetHoldings(p)
        \/ \E inputs \in InputsFor(Len(store)) : GetValuations(p, inputs)
        \/ Return(p)

Spec == InitServer /\ [][Next]_vars

-----------------------------------------------------------------------------
(* Properties of the resolver and the adapters *)

\* What each adapter answers in the current environment.
PrimaryAnswer == fetch_from_eastmoney(holding.code, emResp)
SecondaryAnswer == fetch_from_sina(holding.code, sinaResp)

\* Session classification as the design states it: weekend first.
Session(t) ==
    IF t.wday \in {5, 6} THEN "weekend"
    ELSE IF t.hour \in 9..15 THEN "trading_hours"
    ELSE "off_hours"

\* The decision table as the design states it.
TableChoice(session, primary, secondary) ==
    IF session = "weekend" THEN OrElse(secondary, primary)
    ELSE OrElse(primary, secondary)

Before(a, b, seq) ==
    \E i, j \in 1..Len(seq) : i < j /\ seq[i] = a /\ seq[j] = b

Fetched(x) == \E i \in 1..Len(best.fetched) : best.fetched[i] = x

\* C1: for every weekday, hour and availability of the two providers,
\* get_best_data returns the quote the decision table prescribes for the
\* session (weekend checked first, then trading hours 9..15, else off hours).
C1_DecisionTable ==
    (best.called /\ PrimaryAnswer.t # "raise" /\ SecondaryAnswer.t # "raise")
        => best.ret = TableChoice(Session(now), PrimaryAnswer, SecondaryAnswer)

\* C2: a provider is fetched only when its result can affect the selected
\* quote: outside the weekend the secondary only after the primary was
\* fetched and found unavailable, in the weekend the primary only after the
\* secondary was found unavailable.
C2_NoNeedlessFetch ==
    (best.called /\ PrimaryAnswer.t # "raise" /\ SecondaryAnswer.t # "raise")
        => IF Session(now) = "weekend"
           THEN Fetched("eastmoney")
                    => /\ Before("sina", "eastmoney", best.fetched)
                       /\ SecondaryAnswer.t = "none"
           ELSE Fetched("sina")
                    => /\ Before("eastmoney", "sina", best.fetched)
                       /\ PrimaryAnswer.t = "none"

\* C3: whatever a provider answers, each adapter ends by returning a quote
\* or None; no exception leaves it.
C3_NoExceptionEscapes ==
    /\ emOut.t \in {"pending", "quote", "none"}
    /\ sinaOut.t \in {"pending", "quote", "none"}

\* C4: every quote an adapter returns carries an estimate and a last net
\* value that are finite and were supplied by the provider's response.
C4_FiniteSupplied ==
    /\ emOut.t = "quote"
        => /\ emResp.gsz.j = "num" /\ emResp.dwjz.j = "num"
           /\ IsFinite(emOut.q.gsz) /\ IsFinite(emOut.q.dwjz)
    /\ sinaOut.t = "quote"
        => /\ IsFinite(sinaOut.q.gsz) /\ IsFinite(sinaOut.q.dwjz)

BothUnavailable == PrimaryAnswer.t = "none" /\ SecondaryAnswer.t = "none"

OfflineView ==
    /\ view.source = "offline"
    /\ view.gsz = holding.cost
    /\ view.dwjz = holding.cost
    /\ view.gszzl = F(0)
    /\ view.update_time = "--"
    /\ view.day_profit = F(0)
    /\ view.total_profit = F(0)
    /\ view.market_value = FMul(holding.shares, holding.cost)

\* C5 as stated: for any holding with shares > 0 and cost > 0, in any
\* session, when both providers are unavailable the valuation does not fail
\* and yields the offline view (cost-basis figures, zero profits).
C5_OfflineView ==
    (FGt0(holding.shares) /\ FGt0(holding.cost) /\ BothUnavailable)
        => /\ best.called => best.ret = None
           /\ view # NoView => OfflineView

\* C5 amended: the same for holdings whose shares and cost are finite.
C5_OfflineViewFinite ==
    (/\ IsFinite(holding.shares) /\ IsFinite(holding.cost)
     /\ FGt0(holding.shares) /\ FGt0(holding.cost) /\ BothUnavailable)
        => /\ best.called => best.ret = None
           /\ view # NoView => OfflineView

C5_Witness ==
    /\ holding.shares = F(100) /\ holding.cost = F(150)
    /\ BothUnavailable
    /\ Session(now) = "weekend"
    /\ view # NoView
    /\ view.market_value = F(15000)

\* C6: for any holding and any resolved quote the view carries the quote's
\* source, estimate, last net value and percent change, and
\* market_value = shares * estimate,
\* day_profit = (estimate - last_net_value) * shares,
\* total_profit = (estimate - cost) * shares
\* (100 shares at cost 1.50 with estimate 1.60 and last net value 1.55 from
\* the primary give 160, 5 and 10; 1.58 / 1.55 from the secondary give a day
\* profit of 3).
C6_ViewFromQuote ==
    (view # NoView /\ best.ret.t = "quote")
        => LET q == best.ret.q
           IN  /\ view.source = q.source
               /\ view.gsz = q.gsz
               /\ view.dwjz = q.dwjz
               /\ view.gszzl = q.gszzl
               /\ view.market_value = FMul(holding.shares, q.gsz)
               /\ view.day_profit = FMul(FSub(q.gsz, q.dwjz), holding.shares)
               /\ view.total_profit
                    = FMul(FSub(q.gsz, holding.cost), holding.shares)
               /\ (/\ holding.shares = F(100) /\ holding.cost = F(150)
                   /\ q.gsz = F(160) /\ q.dwjz = F(155))
                    => /\ view.market_value = F(16000)
                       /\ view.day_profit = F(500)
                       /\ view.total_profit = F(1000)
               /\ (/\ holding.shares = F(100)
                   /\ q.gsz = F(158) /\ q.dwjz = F(155))
                    => view.day_profit = F(300)

C6_Witness ==
    /\ holding.shares = F(100) /\ holding.cost = F(150)
    /\ Session(now) = "trading_hours"
    /\ emResp = EMQuoteSample
    /\ view # NoView
    /\ view.source = "eastmoney"
    /\ view.market_value = F(16000)
    /\ view.day_profit = F(500)
    /\ view.total_profit = F(1000)

-----------------------------------------------------------------------------
(* Properties of the handlers *)

\* Left-to-right sum of a sequence of floats.
RECURSIVE FSum(_)
FSum(xs) ==
    IF Len(xs) = 0 THEN F(0)
    ELSE FAdd(FSum(SubSeq(xs, 1, Len(xs) - 1)), xs[Len(xs)])

Done(p, op) == pc[p] = "done" /\ req[p].op = op

\* C7: for any stored holdings and any provider outcomes, get_valuations
\* returns exactly one view per holding, in store order, and each summary
\* total is the sum of that field over the returned views.
C7_ValuationsComplete ==
    \A p \in Procs :
        Done(p, "valuations")
            => /\ resp[p].status = 200
               /\ Len(resp[p].data) = Len(local[p])
               /\ \A i \in 1..Len(local[p]) :
                      /\ resp[p].data[i].code = local[p][i].code
                      /\ resp[p].data[i].shares = local[p][i].shares
                      /\ resp[p].data[i].cost = local[p][i].cost
               /\ LET data == resp[p].data
                      n == Len(data)
                  IN  /\ resp[p].summary.total_market_value
                            = FSum([i \in 1..n |-> data[i].market_value])
                      /\ resp[p].summary.total_day_profit
                            = FSum([i \in 1..n |-> data[i].day_profit])
                      /\ resp[p].summary.total_hold_profit
                            = FSum([i \in 1..n |-> data[i].total_profit])

\* A request whose shares and cost are numbers.
Numeric(r) == FloatOf(r.shares).ok /\ FloatOf(r.cost).ok

\* C8: after any sequence of add_fund and delete_fund requests every stored
\* holding has shares > 0 and cost > 0; an add_fund request with an empty
\* code, shares <= 0 or cost <= 0 is answered 400 and the store is not
\* written.
C8_StorePositive ==
    /\ \A i \in 1..Len(store) :
            FGt0(store[i].shares) /\ FGt0(store[i].cost)
    /\ \A p \in Procs :
            (/\ Done(p, "add")
             /\ \/ req[p].code = ""
                \/ /\ Numeric(req[p])
                   /\ \/ FLe0(FloatOf(req[p].shares).val)
                      \/ FLe0(FloatOf(req[p].cost).val))
                => resp[p].status = 400 /\ ver = hist[p].arrived

UniqueCodes(holdings) ==
    \A i, j \in 1..Len(holdings) :
        holdings[i].code = holdings[j].code => i = j

Without(holdings, k) ==
    SubSeq(holdings, 1, k - 1) \o SubSeq(holdings, k + 1, Len(holdings))

\* C9: with requests served one at a time no two stored holdings share a
\* code; add_fund for a stored code updates that one record in place (length
\* and order kept), add_fund for a new code appends exactly one record,
\* delete_fund leaves no record with the code and keeps the others in order.
C9_UniqueCodes ==
    /\ UniqueCodes(store)
    /\ \A p \in Procs :
        (Done(p, "add") /\ resp[p].status = 200)
            => LET c == req[p].code
                   old == local[p]
               IN  IF HasCode(old, c)
                   THEN /\ Len(store) = Len(old)
                        /\ Codes(store) = Codes(old)
                        /\ \A i \in 1..Len(old) :
                              IF old[i].code = c
                              THEN /\ store[i].shares
                                        = FloatOf(req[p].shares).val
                                   /\ store[i].cost
                                        = FloatOf(req[p].cost).val
                              ELSE store[i] = old[i]
                   ELSE /\ Len(store) = Len(old) + 1
                        /\ SubSeq(store, 1, Len(old)) = old
                        /\ store[Len(store)].code = c
    /\ \A p \in Procs :
        Done(p, "delete")
            => LET c == req[p].code
                   old == local[p]
               IN  /\ ~HasCode(store, c)
                   /\ \A k \in 1..Len(old) :
                          old[k].code = c => store = Without(old, k)
                   /\ ~HasCode(old, c) => store = old

\* An update in place of the first of two stored holdings.
C9_Witness ==
    \E p \in Procs :
        /\ Done(p, "add") /\ resp[p].status = 200
        /\ Len(local[p]) = 2
        /\ local[p][1].code = req[p].code
        /\ local[p][1].shares = F(100)
        /\ Len(store) = 2
        /\ store[1].shares = F(200)
        /\ store[2] = local[p][2]

\* q loaded the store before p saved, saved after p, and nothing was saved
\* since: p's save fell between q's load_holdings and q's save_holdings.
Overwrote(q, p) ==
    /\ p # q
    /\ pc[p] = "done" /\ pc[q] = "done"
    /\ resp[p].status = 200 /\ resp[q].status = 200
    /\ hist[q].loaded < hist[p].saved
    /\ hist[p].saved < hist[q].saved
    /\ ver = hist[q].saved

\* C10: the read-modify-write of the store is unguarded.  When two add_fund
\* requests for two different new codes both load before either saves, both
\* return success and the store holds only the code saved last (a lost
\* update); likewise a delete_fund is undone by an add_fund for another code
\* that loaded before the delete saved and saved after it.
C10_LostUpdate ==
    \A p, q \in Procs :
        (Overwrote(q, p) /\ req[q].op = "add" /\ req[p].code # req[q].code)
            => /\ (req[p].op = "add" /\ ~HasCode(local[q], req[p].code))
                    => /\ ~HasCode(store, req[p].code)
                       /\ HasCode(store, req[q].code)
               /\ (req[p].op = "delete" /\ HasCode(local[q], req[p].code))
                    => HasCode(store, req[p].code)

\* Both add requests returned success; one of the two codes is missing.
C10_Witness ==
    \E p, q \in Procs :
        /\ Overwrote(q, p)
        /\ req[p].op = "add" /\ req[q].op = "add"
        /\ req[p].code # req[q].code
        /\ hist[p].loaded = hist[q].loaded
        /\ local[p] = <<>> /\ local[q] = <<>>
        /\ Len(store) = 1
        /\ store[1].code = req[q].code

=============================================================================
